---- MODULE Spec2Model ----
(***************************************************************************)
(* Model of server.js: the startup sequence (waitForMongo, preloadCourses, *)
(* app.listen), the four API handlers and the two collections they use.    *)
(*                                                                         *)
(* An optional JSON value is a sequence of length 0 (absent/undefined) or  *)
(* 1 (present).  Every await of the source is a step boundary: a handler   *)
(* is one action up to its first await and one action for the resumption.  *)
(***************************************************************************)
EXTENDS Integers, Sequences, FiniteSets, TLC

\* ------------------------------------------------------------------ bounds
MaxRequests == 2        \* requests the clients send in one run
MaxSeedCalls == 4       \* calls of preloadCourses in the seed harness

\* ------------------------------------------------------- program constants
Retries == 10           \* waitForMongo(retries = 10, ...)
Delay == 2000           \* waitForMongo(..., delay = 2000)

None == << >>
Some(v) == << v >>
Has(o) == o # None
Falsy(o) == o = None \/ o = Some("")      \* !x for an optional string

NoExit == 0 - 1                            \* the process is still running

ConnErrors == {"ECONNREFUSED", "ETIMEDOUT"}   \* what mongoose.connect rejects with
StorageErrors == {"ECONNRESET"}               \* what a collection operation rejects with
FixedMsg == "MongoDB failed to connect after multiple attempts"
CustomerMsg == "Customer name and email are required"
OrderValidationMsg == "Order validation failed"

\* The three sample courses, by the fields the model keeps (title, spaces).
initialCourses ==
  << [title |-> Some("English Basics"), spaces |-> Some(10)],
     [title |-> Some("French Advanced"), spaces |-> Some(8)],
     [title |-> Some("Spanish Beginner"), spaces |-> Some(12)] >>

VARIABLES
  CI,          \* process.env.CI is set
  pc,          \* where startServer is
  wfm,         \* the frame of waitForMongo: pc, i, attempts made, delays waited, err
  seed,        \* the frame of preloadCourses: pc, count, result
  exitCode,    \* NoExit, or the code process.exit was called with
  reported,    \* what startServer wrote with console.error (an optional error)
  courses,     \* the Course collection, in insertion order
  orders,      \* the Order collection, in insertion order
  nextId,      \* source of fresh _id values
  nStarted,    \* requests received so far
  inflight,    \* requests suspended at their await: id -> request
  last,        \* the request that was answered most recently, with its answer
  seedCalls,   \* calls of preloadCourses so far
  seedErrs,    \* of these, the ones whose catch clause ran
  store0,      \* the Course collection at process start
  coursesAtCall \* the Course collection when preloadCourses was last called

vars == << CI, pc, wfm, seed, exitCode, reported, courses, orders, nextId,
           nStarted, inflight, last, seedCalls, seedErrs, store0, coursesAtCall >>

startVars == << CI, pc, wfm, exitCode, reported >>
seedVars == << seed, seedCalls, seedErrs, coursesAtCall >>
reqVars == << nStarted, inflight, last >>

\* ------------------------------------------------------------ data shapes
\* Schemas are strict: a document keeps the declared fields of its payload.
CastCourse(body, id) ==
  [_id |-> id, title |-> body.title, spaces |-> body.spaces]

CastItemNoPrice(item, id, k) ==
  [_id |-> << id, k >>, courseId |-> item.courseId, price |-> None]
CastItem(item, id, k) ==
  [_id |-> << id, k >>, courseId |-> item.courseId, price |-> item.price]

CastOrder(customer, items, total, id, now) ==
  [_id |-> id,
   customer |-> [name |-> customer[1].name, email |-> customer[1].email],
   items |-> [k \in 1..Len(items) |-> CastItem(items[k], id, k)],
   total |-> total,
   createdAt |-> now]

\* orderSchema: customer.name, customer.email, items[].courseId and total are
\* required: save() validates the document before it writes.
ValidateOrder(doc) ==
  IF \/ Falsy(doc.customer.name)
     \/ Falsy(doc.customer.email)
     \/ \E k \in 1..Len(doc.items) : Falsy(doc.items[k].courseId)
     \/ ~Has(doc.total)
  THEN Some(OrderValidationMsg)
  ELSE None

\* if (!customer || !customer.name || !customer.email)
CustomerMissingNoEmail(customer) ==
  IF ~Has(customer) THEN TRUE
  ELSE Falsy(customer[1].name)
CustomerMissing(customer) ==
  IF ~Has(customer) THEN TRUE
  ELSE IF Falsy(customer[1].name) THEN TRUE
  ELSE Falsy(customer[1].email)

InsertReplace(coll, doc) == << doc >>
Insert(coll, doc) == Append(coll, doc)

InsertMany(coll, docs, id) ==
  coll \o [k \in 1..Len(docs) |-> CastCourse(docs[k], id + k - 1)]

\* ------------------------------------------------------------ request inputs
CourseBodies == [title : {None, Some("X")}, spaces : {Some(5)}]

Customers ==
  {None} \cup
  { Some(c) : c \in [name : {None, Some(""), Some("Ann")},
                     email : {None, Some("a@x")}] }

Items == [courseId : {None, Some("c1")}, price : {Some(50)}]
ItemLists == { << >> } \cup { << it >> : it \in Items }
Totals == {None, Some(50)}

OrderBodies == [customer : Customers, items : ItemLists, total : Totals]

\* ------------------------------------------------------------ responses
NoLast ==
  [id |-> 0, op |-> "none", status |-> 0, error |-> "", docs |-> << >>,
   ops |-> 0, added |-> 0, storageErr |-> FALSE, responses |-> 0,
   customer |-> None, items |-> << >>, total |-> None]

Answer(id, op, status, error, docs, ops, added, storageErr) ==
  [id |-> id, op |-> op, status |-> status, error |-> error, docs |-> docs,
   ops |-> ops, added |-> added, storageErr |-> storageErr, responses |-> 1,
   customer |-> None, items |-> << >>, total |-> None]

\* catch (err) { res.status(500).json({ error: err.message }) }
ErrorResponseGeneric(id, op, msg, ops, storageErr) ==
  Answer(id, op, 500, "Internal Server Error", << >>, ops, 0, storageErr)
ErrorResponse(id, op, msg, ops, storageErr) ==
  Answer(id, op, 500, msg, << >>, ops, 0, storageErr)

\* ------------------------------------------------------------ waitForMongo
NewFrame ==
  [pc |-> "connect", i |-> 0, attempts |-> 0, waits |-> << >>,
   err |-> None, lastErr |-> None, thrown |-> None]

\* The frame after `return`: the locals are gone.
ReturnedFrame == [NewFrame EXCEPT !.pc = "returned"]

\* for (...; i < retries; ...)
LoopCondOffByOne(i) == i <= Retries
LoopCond(i) == i < Retries

\* setTimeout(res, delay): the same delay on every round
NextDelayBackoff(i) == Delay * (i + 1)
NextDelay(i) == Delay

\* throw new Error("MongoDB failed to connect after multiple attempts")
WfmErrorWithCause(lastErr) == [message |-> FixedMsg, cause |-> lastErr]
WfmError(lastErr) == [message |-> FixedMsg, cause |-> None]

\* await mongoose.connect(MONGO_URI) resolves
WfmConnectOk ==
  /\ pc = "waitForMongo" /\ wfm.pc = "connect"
  /\ wfm' = [wfm EXCEPT !.pc = "connected", !.attempts = @ + 1]
  /\ UNCHANGED << CI, pc, exitCode, reported, courses, orders, nextId, store0 >>
  /\ UNCHANGED seedVars /\ UNCHANGED reqVars

\* await mongoose.connect(MONGO_URI) rejects: the catch clause logs
WfmConnectFail ==
  /\ pc = "waitForMongo" /\ wfm.pc = "connect"
  /\ \E e \in ConnErrors :
       wfm' = [wfm EXCEPT !.pc = "delay", !.attempts = @ + 1,
                          !.err = Some(e), !.lastErr = Some(e)]
  /\ UNCHANGED << CI, pc, exitCode, reported, courses, orders, nextId, store0 >>
  /\ UNCHANGED seedVars /\ UNCHANGED reqVars

\* the timer fires; i++; the loop goes round or falls through to the throw
WfmDelay ==
  /\ pc = "waitForMongo" /\ wfm.pc = "delay"
  /\ wfm' = [wfm EXCEPT
               !.waits = Append(@, NextDelay(wfm.i)),
               !.i = @ + 1,
               !.err = None,
               !.pc = IF LoopCond(wfm.i + 1) THEN "connect" ELSE "threw",
               !.thrown = IF LoopCond(wfm.i + 1) THEN None
                          ELSE Some(WfmError(wfm.lastErr))]
  /\ UNCHANGED << CI, pc, exitCode, reported, courses, orders, nextId, store0 >>
  /\ UNCHANGED seedVars /\ UNCHANGED reqVars

\* console.log("MongoDB connected"); return;
WfmReturn ==
  /\ pc = "waitForMongo" /\ wfm.pc = "connected"
  /\ wfm' = ReturnedFrame
  /\ pc' = "checkCI"
  /\ UNCHANGED << CI, exitCode, reported, courses, orders, nextId, store0 >>
  /\ UNCHANGED seedVars /\ UNCHANGED reqVars

\* ------------------------------------------------------------ preloadCourses
IdleSeed == [pc |-> "idle", count |-> 0, result |-> "", warned |-> None, thrown |-> None]

\* if (count === 0)
SeedNeededAlways(count) == TRUE
SeedNeeded(count) == count = 0

\* catch (err) { console.warn(..., err.message) }: the error goes no further
PreloadRethrow(e) ==
  [seed EXCEPT !.pc = "threw", !.result = "failed",
               !.thrown = Some([message |-> e, cause |-> None])]
PreloadCatch(e) ==
  [seed EXCEPT !.pc = "done", !.result = "failed", !.warned = Some(e)]

\* the call itself: a fresh frame
PreloadCall ==
  /\ seed.pc \in {"idle", "done"}
  /\ seed' = [IdleSeed EXCEPT !.pc = "count"]
  /\ seedCalls' = seedCalls + 1
  /\ coursesAtCall' = courses
  /\ UNCHANGED seedErrs

\* const count = await Course.countDocuments(); then the branch on it
PreloadCountOk ==
  /\ seed.pc = "count"
  /\ seed' = [seed EXCEPT
                !.count = Len(courses),
                !.pc = IF SeedNeeded(Len(courses)) THEN "insert" ELSE "done",
                !.result = IF SeedNeeded(Len(courses)) THEN "" ELSE "skipped"]
  /\ UNCHANGED << seedCalls, seedErrs, coursesAtCall, courses, orders, nextId, store0 >>
  /\ UNCHANGED startVars /\ UNCHANGED reqVars

PreloadCountFail ==
  /\ seed.pc = "count"
  /\ \E e \in StorageErrors : seed' = PreloadCatch(e)
  /\ seedErrs' = seedErrs + 1
  /\ UNCHANGED << seedCalls, coursesAtCall, courses, orders, nextId, store0 >>
  /\ UNCHANGED startVars /\ UNCHANGED reqVars

\* await Course.insertMany(initialCourses) resolves
PreloadInsertOk ==
  /\ seed.pc = "insert"
  /\ courses' = InsertMany(courses, initialCourses, nextId)
  /\ nextId' = nextId + Len(initialCourses)
  /\ seed' = [seed EXCEPT !.pc = "done", !.result = "seeded"]
  /\ UNCHANGED << seedCalls, seedErrs, coursesAtCall, orders, store0 >>
  /\ UNCHANGED startVars /\ UNCHANGED reqVars

\* await Course.insertMany(initialCourses) rejects: an ordered insert stops at
\* the first document that fails, the j documents before it are in the store
PreloadInsertFail ==
  /\ seed.pc = "insert"
  /\ \E j \in 0..(Len(initialCourses) - 1) :
       /\ courses' = InsertMany(courses, SubSeq(initialCourses, 1, j), nextId)
       /\ nextId' = nextId + Len(initialCourses)
  /\ \E e \in StorageErrors : seed' = PreloadCatch(e)
  /\ seedErrs' = seedErrs + 1
  /\ UNCHANGED << seedCalls, coursesAtCall, orders, store0 >>
  /\ UNCHANGED startVars /\ UNCHANGED reqVars

\* ------------------------------------------------------------ startServer
\* if (!process.env.CI) { await preloadCourses(); }
StartSeedNoAwait ==
  /\ pc = "checkCI" /\ ~CI
  /\ PreloadCall
  /\ pc' = "listen"
  /\ UNCHANGED << CI, wfm, exitCode, reported, courses, orders, nextId, store0 >>
  /\ UNCHANGED reqVars
StartSeed ==
  /\ pc = "checkCI" /\ ~CI
  /\ PreloadCall
  /\ pc' = "preload"
  /\ UNCHANGED << CI, wfm, exitCode, reported, courses, orders, nextId, store0 >>
  /\ UNCHANGED reqVars

\* else { console.log("Skipping DB seed in CI environment") }
SkipSeed ==
  /\ pc = "checkCI" /\ CI
  /\ pc' = "listen"
  /\ UNCHANGED << CI, wfm, exitCode, reported, courses, orders, nextId, store0 >>
  /\ UNCHANGED seedVars /\ UNCHANGED reqVars

\* the await of preloadCourses() resumes
AwaitSeed ==
  /\ pc = "preload" /\ seed.pc = "done"
  /\ pc' = "listen"
  /\ UNCHANGED << CI, wfm, exitCode, reported, courses, orders, nextId, store0 >>
  /\ UNCHANGED seedVars /\ UNCHANGED reqVars

\* app.listen(PORT, ...)
Listen ==
  /\ pc = "listen"
  /\ pc' = "listening"
  /\ UNCHANGED << CI, wfm, exitCode, reported, courses, orders, nextId, store0 >>
  /\ UNCHANGED seedVars /\ UNCHANGED reqVars

\* catch (err) { console.error(..., err.message); process.exit(1); }
Thrown == IF wfm.pc = "threw" THEN wfm.thrown ELSE seed.thrown

StartCatch ==
  /\ pc \in {"waitForMongo", "preload"}
  /\ wfm.pc = "threw" \/ seed.pc = "threw"
  /\ reported' = Thrown
  /\ exitCode' = 1
  /\ pc' = "exited"
  /\ UNCHANGED << CI, wfm, courses, orders, nextId, store0 >>
  /\ UNCHANGED seedVars /\ UNCHANGED reqVars

\* ------------------------------------------------------------ API routes
\* Express hands a request to its handler only while the server listens.
Serving == pc = "listening" /\ exitCode = NoExit

Accepting == Serving /\ nStarted < MaxRequests

Request(op, customer, items, total, doc) ==
  [op |-> op, customer |-> customer, items |-> items, total |-> total, doc |-> doc]

Suspend(id, req) ==
  inflight' = [k \in DOMAIN inflight \cup {id} |->
                 IF k = id THEN req ELSE inflight[k]]

Resume(id) ==
  inflight' = [k \in DOMAIN inflight \ {id} |-> inflight[k]]

\* GET /api/courses, up to `await Course.find()`
ListCoursesBegin ==
  /\ Accepting
  /\ nStarted' = nStarted + 1
  /\ Suspend(nStarted + 1, Request("listCourses", None, << >>, None, None))
  /\ UNCHANGED << last, courses, orders, nextId, store0 >>
  /\ UNCHANGED startVars /\ UNCHANGED seedVars

\* res.json(courses)
ListCoursesOk ==
  /\ Serving
  /\ \E id \in DOMAIN inflight :
       /\ inflight[id].op = "listCourses"
       /\ last' = Answer(id, "listCourses", 200, "", courses, 1, 0, FALSE)
       /\ Resume(id)
  /\ UNCHANGED << nStarted, courses, orders, nextId, store0 >>
  /\ UNCHANGED startVars /\ UNCHANGED seedVars

ListCoursesFail ==
  /\ Serving
  /\ \E id \in DOMAIN inflight, e \in StorageErrors :
       /\ inflight[id].op = "listCourses"
       /\ last' = ErrorResponse(id, "listCourses", e, 1, TRUE)
       /\ Resume(id)
  /\ UNCHANGED << nStarted, courses, orders, nextId, store0 >>
  /\ UNCHANGED startVars /\ UNCHANGED seedVars

\* POST /api/courses: new Course(req.body), up to `await course.save()`
CreateCourseBegin ==
  /\ Accepting
  /\ \E body \in CourseBodies :
       Suspend(nStarted + 1,
               Request("createCourse", None, << >>, None,
                       Some(CastCourse(body, nextId))))
  /\ nStarted' = nStarted + 1
  /\ nextId' = nextId + 1
  /\ UNCHANGED << last, courses, orders, store0 >>
  /\ UNCHANGED startVars /\ UNCHANGED seedVars

\* res.json(course)
CreateCourseOk ==
  /\ Serving
  /\ \E id \in DOMAIN inflight :
       /\ inflight[id].op = "createCourse"
       /\ courses' = Insert(courses, inflight[id].doc[1])
       /\ last' = Answer(id, "createCourse", 200, "", inflight[id].doc, 1, 1, FALSE)
       /\ Resume(id)
  /\ UNCHANGED << nStarted, orders, nextId, store0 >>
  /\ UNCHANGED startVars /\ UNCHANGED seedVars

CreateCourseFail ==
  /\ Serving
  /\ \E id \in DOMAIN inflight, e \in StorageErrors :
       /\ inflight[id].op = "createCourse"
       /\ last' = ErrorResponse(id, "createCourse", e, 1, TRUE)
       /\ Resume(id)
  /\ UNCHANGED << nStarted, courses, orders, nextId, store0 >>
  /\ UNCHANGED startVars /\ UNCHANGED seedVars

WithBody(answer, body) ==
  [answer EXCEPT !.customer = body.customer, !.items = body.items,
                 !.total = body.total]

\* POST /api/orders with a customer check that fails: return res.status(400)...
CreateOrderRejected ==
  /\ Accepting
  /\ \E body \in OrderBodies :
       /\ CustomerMissing(body.customer)
       /\ last' = WithBody(Answer(nStarted + 1, "createOrder", 400, CustomerMsg,
                                  << >>, 0, 0, FALSE), body)
  /\ nStarted' = nStarted + 1
  /\ UNCHANGED << inflight, courses, orders, nextId, store0 >>
  /\ UNCHANGED startVars /\ UNCHANGED seedVars

\* POST /api/orders: new Order({customer, items, total}), up to `await newOrder.save()`
CreateOrderBegin ==
  /\ Accepting
  /\ \E body \in OrderBodies :
       /\ ~CustomerMissing(body.customer)
       /\ Suspend(nStarted + 1,
                  Request("createOrder", body.customer, body.items, body.total,
                          Some(CastOrder(body.customer, body.items, body.total,
                                         nextId, nStarted + 1))))
  /\ nStarted' = nStarted + 1
  /\ nextId' = nextId + 1
  /\ UNCHANGED << last, courses, orders, store0 >>
  /\ UNCHANGED startVars /\ UNCHANGED seedVars

\* save() rejects with the schema's validation error before it writes
CreateOrderInvalid ==
  /\ Serving
  /\ \E id \in DOMAIN inflight :
       /\ inflight[id].op = "createOrder"
       /\ Has(ValidateOrder(inflight[id].doc[1]))
       /\ last' = WithBody(ErrorResponse(id, "createOrder",
                                         ValidateOrder(inflight[id].doc[1])[1],
                                         0, FALSE), inflight[id])
       /\ Resume(id)
  /\ UNCHANGED << nStarted, courses, orders, nextId, store0 >>
  /\ UNCHANGED startVars /\ UNCHANGED seedVars

\* res.status(201).json({ message: "Order saved", order: newOrder })
CreateOrderOk ==
  /\ Serving
  /\ \E id \in DOMAIN inflight :
       /\ inflight[id].op = "createOrder"
       /\ ~Has(ValidateOrder(inflight[id].doc[1]))
       /\ orders' = Insert(orders, inflight[id].doc[1])
       /\ last' = WithBody(Answer(id, "createOrder", 201, "", inflight[id].doc,
                                  1, 1, FALSE), inflight[id])
       /\ Resume(id)
  /\ UNCHANGED << nStarted, courses, nextId, store0 >>
  /\ UNCHANGED startVars /\ UNCHANGED seedVars

CreateOrderFail ==
  /\ Serving
  /\ \E id \in DOMAIN inflight, e \in StorageErrors :
       /\ inflight[id].op = "createOrder"
       /\ ~Has(ValidateOrder(inflight[id].doc[1]))
       /\ last' = WithBody(ErrorResponse(id, "createOrder", e, 1, TRUE),
                           inflight[id])
       /\ Resume(id)
  /\ UNCHANGED << nStarted, courses, orders, nextId, store0 >>
  /\ UNCHANGED startVars /\ UNCHANGED seedVars

\* GET /api/orders, up to `await Order.find()`
ListOrdersBegin ==
  /\ Accepting
  /\ nStarted' = nStarted + 1
  /\ Suspend(nStarted + 1, Request("listOrders", None, << >>, None, None))
  /\ UNCHANGED << last, courses, orders, nextId, store0 >>
  /\ UNCHANGED startVars /\ UNCHANGED seedVars

\* res.json(orders)
ListOrdersOk ==
  /\ Serving
  /\ \E id \in DOMAIN inflight :
       /\ inflight[id].op = "listOrders"
       /\ last' = Answer(id, "listOrders", 200, "", orders, 1, 0, FALSE)
       /\ Resume(id)
  /\ UNCHANGED << nStarted, courses, orders, nextId, store0 >>
  /\ UNCHANGED startVars /\ UNCHANGED seedVars

ListOrdersFail ==
  /\ Serving
  /\ \E id \in DOMAIN inflight, e \in StorageErrors :
       /\ inflight[id].op = "listOrders"
       /\ last' = ErrorResponse(id, "listOrders", e, 1, TRUE)
       /\ Resume(id)
  /\ UNCHANGED << nStarted, courses, orders, nextId, store0 >>
  /\ UNCHANGED startVars /\ UNCHANGED seedVars

\* ------------------------------------------------------------ specifications
\* What the store may hold when the process starts: nothing, or a course an
\* earlier run left there.
InitialStores ==
  { << >>, << [_id |-> 0, title |-> Some("Old"), spaces |-> Some(1)] >> }

InitCommon ==
  /\ store0 \in InitialStores
  /\ courses = store0
  /\ orders = << >>
  /\ nextId = 1
  /\ nStarted = 0
  /\ inflight = << >>
  /\ last = NoLast
  /\ seed = IdleSeed
  /\ seedCalls = 0
  /\ seedErrs = 0
  /\ coursesAtCall = << >>
  /\ exitCode = NoExit
  /\ reported = None

\* startServer() at the bottom of the file
Init ==
  /\ InitCommon
  /\ CI \in BOOLEAN
  /\ pc = "waitForMongo"
  /\ wfm = NewFrame

Next ==
  \/ WfmConnectOk
  \/ WfmConnectFail
  \/ WfmDelay
  \/ WfmReturn
  \/ StartSeed
  \/ SkipSeed
  \/ PreloadCountOk
  \/ PreloadCountFail
  \/ PreloadInsertOk
  \/ PreloadInsertFail
  \/ AwaitSeed
  \/ Listen
  \/ StartCatch
  \/ ListCoursesBegin
  \/ ListCoursesOk
  \/ ListCoursesFail
  \/ CreateCourseBegin
  \/ CreateCourseOk
  \/ CreateCourseFail
  \/ CreateOrderRejected
  \/ CreateOrderBegin
  \/ CreateOrderInvalid
  \/ CreateOrderOk
  \/ CreateOrderFail
  \/ ListOrdersBegin
  \/ ListOrdersOk
  \/ ListOrdersFail

Spec == Init /\ [][Next]_vars

\* preloadCourses called again and again on a connected store, nothing else running
SeedInit ==
  /\ InitCommon
  /\ CI = FALSE
  /\ pc = "harness"
  /\ wfm = ReturnedFrame

HarnessCall ==
  /\ pc = "harness"
  /\ seedCalls < MaxSeedCalls
  /\ PreloadCall
  /\ UNCHANGED << courses, orders, nextId, store0 >>
  /\ UNCHANGED startVars /\ UNCHANGED reqVars

SeedNext ==
  \/ HarnessCall
  \/ PreloadCountOk
  \/ PreloadCountFail
  \/ PreloadInsertOk
  \/ PreloadInsertFail

SeedSpec == SeedInit /\ [][SeedNext]_vars

\* ------------------------------------------------------------ properties
IsPrefix(s, t) == Len(s) <= Len(t) /\ SubSeq(t, 1, Len(s)) = s

StartupStep ==
  StartSeed \/ SkipSeed \/ PreloadCountOk \/ PreloadCountFail
    \/ PreloadInsertOk \/ PreloadInsertFail \/ AwaitSeed \/ Listen

\* C1: the listener is bound only after waitForMongo has returned and, when CI
\* is unset, after preloadCourses has finished (with or without a swallowed
\* error); no request is handled before the listener is bound; preloadCourses
\* is never at its count or insert step once startServer is at app.listen.
C1_ListenAfterStartup ==
  /\ pc = "listening" =>
       /\ wfm.pc = "returned"
       /\ ~CI => (seed.pc = "done" /\ seedCalls = 1)
       /\ CI => (seed.pc = "idle" /\ seedCalls = 0)
  /\ pc # "listening" =>
       (nStarted = 0 /\ DOMAIN inflight = {} /\ last = NoLast /\ orders = << >>)
  /\ pc \in {"listen", "listening"} => seed.pc \notin {"count", "insert"}

C1_Witness ==
  /\ pc = "listening" /\ ~CI /\ seed.result = "seeded"
  /\ last.op = "listCourses" /\ last.status = 200 /\ Len(last.docs) = 3

\* C2: when every connection attempt fails, waitForMongo makes exactly Retries
\* (10) attempts and then throws; startServer exits with code 1, the seed
\* routine has not run, the listener is not bound and nothing happens any more.
C2_RetryExhaustion ==
  /\ wfm.attempts <= Retries
  /\ wfm.pc = "threw" => (wfm.attempts = Retries /\ wfm.i = Retries)
  /\ (wfm.pc = "delay" /\ wfm.attempts = Retries) => ENABLED WfmDelay
  /\ exitCode \in {NoExit, 1}
  /\ pc = "exited" <=> exitCode = 1
  /\ exitCode = 1 =>
       /\ wfm.pc = "threw"
       /\ seedCalls = 0 /\ seed.pc = "idle" /\ courses = store0
       /\ nStarted = 0
       /\ ~ENABLED Next

C2_Witness == exitCode = 1 /\ wfm.attempts = 10 /\ Len(wfm.waits) = 10

Lacks(customer) ==
  IF customer = None THEN TRUE
  ELSE IF customer[1].name = None THEN TRUE
  ELSE customer[1].email = None

\* C3: a createOrder request whose body lacks customer, customer.name or
\* customer.email is answered 400 with the fixed message, in the step that
\* receives it: the Order collection is unchanged and no save is pending.
C3_MissingCustomer ==
  [][ (last'.id # last.id /\ last'.op = "createOrder" /\ Lacks(last'.customer)) =>
        /\ last'.status = 400
        /\ last'.error = CustomerMsg
        /\ last'.ops = 0
        /\ last'.responses = 1
        /\ orders' = orders
        /\ inflight' = inflight ]_vars

C3_Witness ==
  /\ last.op = "createOrder" /\ last.status = 400
  /\ Has(last.customer) /\ last.customer[1].email = None
  /\ last.customer[1].name = Some("Ann")

\* C4 (SeedSpec): from an empty store, calls of preloadCourses that all finish
\* without a storage error leave exactly the 3 sample courses however many
\* calls there were, and never more than 3 with errors; a call that observed
\* a nonzero count skipped and left the collection as it found it.
C4_SeedIdempotent ==
  /\ (store0 = << >> /\ seedCalls >= 1 /\ seedErrs = 0 /\ seed.pc = "done") =>
       /\ Len(courses) = 3
       /\ \A k \in 1..3 : courses[k].title = initialCourses[k].title
  /\ store0 = << >> => Len(courses) <= 3
  /\ (seed.pc = "done" /\ seed.count # 0) =>
       (seed.result = "skipped" /\ courses = coursesAtCall)
  /\ seed.pc = "insert" => seed.count = 0

C4_Witness ==
  /\ store0 = << >> /\ seedCalls = 2 /\ seedErrs = 0 /\ seed.pc = "done"
  /\ seed.result = "skipped" /\ seed.count = 3 /\ Len(courses) = 3

\* C5: once waitForMongo has returned, the process never exits with code 1
\* and startServer can always take its next step until the listener is bound,
\* whatever the seed step did (seeded, skipped, failed at the count or at the
\* insert).
C5_SeedFailureNonFatal ==
  /\ wfm.pc = "returned" => exitCode = NoExit
  /\ seed.pc \in {"idle", "count", "insert", "done"}
  /\ seed.pc = "done" => pc \in {"preload", "listen", "listening"}
  /\ (wfm.pc = "returned" /\ pc # "listening") => ENABLED StartupStep

C5_Witness ==
  /\ pc = "listening" /\ seed.result = "failed"
  /\ seed.count = 0 /\ Len(courses) = 2

\* C6: every step keeps each record of both collections, in place and
\* unchanged; a createCourse answered 200 or a createOrder answered 201 added
\* exactly its one record to its collection and nothing to the other.
C6_AppendOnly ==
  [][ /\ IsPrefix(courses, courses')
      /\ IsPrefix(orders, orders')
      /\ (last'.id # last.id /\ last'.op = "createCourse" /\ last'.status = 200) =>
           (courses' = Append(courses, last'.docs[1]) /\ orders' = orders)
      /\ (last'.id # last.id /\ last'.op = "createOrder" /\ last'.status = 201) =>
           (orders' = Append(orders, last'.docs[1]) /\ courses' = courses) ]_vars

C6_Witness ==
  /\ Len(courses) = 4 /\ Len(orders) = 1
  /\ last.op = "createOrder" /\ last.status = 201

NonEmpty(o) == o # None /\ o # Some("")

ValidCustomer(customer) ==
  IF customer = None THEN FALSE
  ELSE NonEmpty(customer[1].name) /\ NonEmpty(customer[1].email)

Echoes(doc, customer, items, total) ==
  /\ doc.customer.name = customer[1].name
  /\ doc.customer.email = customer[1].email
  /\ Len(doc.items) = Len(items)
  /\ \A k \in 1..Len(items) :
       /\ doc.items[k].courseId = items[k].courseId
       /\ doc.items[k].price = items[k].price
  /\ doc.total = total

Created(answer) ==
  /\ answer.status = 201
  /\ Len(answer.docs) = 1
  /\ Echoes(answer.docs[1], answer.customer, answer.items, answer.total)
  /\ Cardinality({k \in 1..Len(orders) : orders[k] = answer.docs[1]}) = 1

\* C7 as claimed: name and email non-empty, total a number, any items, no
\* storage failure: answered 201 with the order persisted and echoed.
C7_AnyItemsCreated ==
  (/\ last.op = "createOrder"
   /\ ValidCustomer(last.customer)
   /\ Has(last.total)
   /\ ~last.storageErr) => Created(last)

\* C7 amended: name and email non-empty, total a number, every item with a
\* non-empty courseId, no storage failure: answered 201 with exactly one
\* order persisted that echoes customer, items and total; an item without
\* courseId fails the schema's validation: 500, nothing written.
C7_ValidItemsCreated ==
  (/\ last.op = "createOrder"
   /\ ValidCustomer(last.customer)
   /\ Has(last.total)
   /\ ~last.storageErr) =>
     IF \A k \in 1..Len(last.items) : NonEmpty(last.items[k].courseId)
     THEN Created(last)
     ELSE last.status = 500 /\ last.error = OrderValidationMsg /\ last.ops = 0

C7_Witness ==
  /\ last.op = "createOrder" /\ last.status = 201
  /\ Len(last.items) = 1 /\ Len(orders) = 2

C9_StorageFailure500 ==
  last.storageErr =>
    /\ last.status = 500
    /\ last.error \in StorageErrors
    /\ last.docs = << >>
    /\ last.responses = 1
    /\ last.ops = 1
    /\ last.id \notin DOMAIN inflight
    /\ exitCode = NoExit /\ pc = "listening"
    /\ nStarted < MaxRequests => ENABLED ListCoursesBegin

C9_Witness ==
  /\ last.storageErr /\ last.op = "listOrders" /\ last.id = 2
  /\ Len(orders) = 1

\* C10: when the k-th attempt is the first to succeed, waitForMongo has made
\* k attempts and waited the fixed delay k-1 times, makes no further attempt,
\* throws nothing and returns to startServer; it never makes more than
\* Retries attempts.
C10_ConstantDelayRetry ==
  /\ wfm.attempts <= Retries
  /\ \A k \in 1..Len(wfm.waits) : wfm.waits[k] = Delay
  /\ wfm.pc = "connected" =>
       /\ wfm.attempts = wfm.i + 1
       /\ Len(wfm.waits) = wfm.attempts - 1
       /\ wfm.thrown = None
       /\ exitCode = NoExit
       /\ ~ENABLED WfmConnectOk /\ ~ENABLED WfmConnectFail /\ ~ENABLED WfmDelay
       /\ ENABLED WfmReturn
  /\ wfm.pc = "returned" => pc \notin {"waitForMongo", "exited"}

C10_Witness ==
  wfm.pc = "connected" /\ wfm.attempts = 4 /\ Len(wfm.waits) = 3

====
